---- MODULE Spec2Model ----
(***************************************************************************)
(* Mark-to-market engine for iron-ore contracts (mtm_core).                *)
(*                                                                         *)
(* The model follows calculate_mtm through its stages: prepare_contracts,  *)
(* preprocess_prices, then one loop iteration per prepared contract        *)
(* (classify_tenor, select_price_for_contract, the MTM arithmetic), and    *)
(* the final return of the report.  select_price_for_contract can also be  *)
(* called on its own on a raw prices table.                                *)
(*                                                                         *)
(* Representation.                                                         *)
(*  - A text is a tuple of one-character strings; the missing value of a   *)
(*    table cell (NaN) is the tuple NaN, the absent result None is <<>>.   *)
(*  - A calendar date is <<year, month, day>>; no date is <<>>.            *)
(*  - Numbers are integers.  Moisture and discount are held in hundredths  *)
(*    (0.08 is 8), the Fe ratio in 62nds (65/62 is 65), a DMT quantity in  *)
(*    hundredths of a ton, a price as a reduced fraction [num, den].       *)
(*  - A notes string is the sequence of its " | "-separated segments; the  *)
(*    empty string is the empty sequence.  A segment is <<message, args>>. *)
(*  - dateutil's parser is modelled on ISO dates "YYYY-MM-DD" (surrounding *)
(*    blanks allowed); the texts drawn as inputs are ISO dates or texts it *)
(*    rejects.  pandas' groupby is modelled with its default dropna=True.  *)
(***************************************************************************)
EXTENDS Integers, Sequences, FiniteSets, TLC

VARIABLES
    contracts_df,        \* input: [cols, rows] the contracts table
    prices_df,           \* input: [hasTenor, rows] the prices table
    valuation_date,      \* input: <<y, m, d>>
    config,              \* input: Config
    pc,                  \* position in calculate_mtm / the direct call
    contracts_prepared,  \* result of prepare_contracts
    prices_prepared,     \* result of preprocess_prices
    records,             \* the records list of calculate_mtm
    report,              \* the returned report: [returned, rows]
    sel                  \* result of a direct select_price_for_contract call

vars == <<contracts_df, prices_df, valuation_date, config, pc,
          contracts_prepared, prices_prepared, records, report, sel>>

----------------------------------------------------------------------------
(* Texts *)

NaN == <<"NaN">>
None == <<>>

\* The characters of the modelled texts, in code-point order.
Chars == <<" ", "%", "-", "0", "1", "2", "3", "4", "5", "6", "7", "8", "9",
           "A", "B", "C", "D", "M", "N", "T", "W", "X",
           "a", "b", "c", "d", "e", "f", "j", "m", "n", "o", "t", "w", "x">>

Digits == <<"0", "1", "2", "3", "4", "5", "6", "7", "8", "9">>

CharOrd(c) == CHOOSE i \in 1..Len(Chars) : Chars[i] = c

IsDigit(c) == \E i \in 1..10 : Digits[i] = c

DigitVal(c) == (CHOOSE i \in 1..10 : Digits[i] = c) - 1

isna(v) == v = NaN

\* Python's ordering of two str values: lexicographic by code point.
RECURSIVE TextLess(_, _)
TextLess(a, b) ==
    IF b = <<>> THEN FALSE
    ELSE IF a = <<>> THEN TRUE
    ELSE IF a[1] = b[1] THEN TextLess(Tail(a), Tail(b))
    ELSE CharOrd(a[1]) < CharOrd(b[1])

\* str.strip()
RECURSIVE LStrip(_)
LStrip(t) == IF t # <<>> /\ t[1] = " " THEN LStrip(Tail(t)) ELSE t

RECURSIVE RStrip(_)
RStrip(t) ==
    IF t # <<>> /\ t[Len(t)] = " " THEN RStrip(SubSeq(t, 1, Len(t) - 1)) ELSE t

Strip(t) == RStrip(LStrip(t))

AllDigits(t) == t # <<>> /\ \A i \in 1..Len(t) : IsDigit(t[i])

\* int(text) for a text of decimal digits
RECURSIVE IntOf(_)
IntOf(t) == IF t = <<>> THEN 0 ELSE 10 * IntOf(SubSeq(t, 1, Len(t) - 1)) + DigitVal(t[Len(t)])

\* f"{n:04d}" and f"{n:02d}"
Fmt2(n) == <<Digits[((n \div 10) % 10) + 1], Digits[(n % 10) + 1]>>
Fmt4(n) == <<Digits[((n \div 1000) % 10) + 1], Digits[((n \div 100) % 10) + 1]>> \o Fmt2(n)

FmtYearMonth(y, m) == Fmt4(y) \o <<"-">> \o Fmt2(m)

\* text.split("-")
RECURSIVE SplitDash(_)
SplitDash(t) ==
    IF \A i \in 1..Len(t) : t[i] # "-" THEN <<t>>
    ELSE LET k == CHOOSE i \in 1..Len(t) :
                      t[i] = "-" /\ \A j \in 1..(i - 1) : t[j] # "-"
         IN <<SubSeq(t, 1, k - 1)>> \o SplitDash(SubSeq(t, k + 1, Len(t)))

----------------------------------------------------------------------------
(* Dates *)

DaysIn(y, m) ==
    IF m \in {4, 6, 9, 11} THEN 30
    ELSE IF m = 2 THEN (IF (y % 4) = 0 /\ ((y % 100) # 0 \/ (y % 400) = 0) THEN 29 ELSE 28)
    ELSE 31

\* dateutil.parser.parse(str(value)): the date of an ISO text, None on failure.
date_parser_parse(value) ==
    LET t == Strip(value) IN
    IF /\ Len(t) = 10
       /\ t[5] = "-" /\ t[8] = "-"
       /\ AllDigits(SubSeq(t, 1, 4)) /\ AllDigits(SubSeq(t, 6, 7))
       /\ AllDigits(SubSeq(t, 9, 10))
    THEN LET y == IntOf(SubSeq(t, 1, 4))
             m == IntOf(SubSeq(t, 6, 7))
             d == IntOf(SubSeq(t, 9, 10))
         IN IF y >= 1 /\ m \in 1..12 /\ d \in 1..DaysIn(y, m) THEN <<y, m, d>> ELSE None
    ELSE None

\* tuple / date comparison
DateLess(a, b) ==
    \/ a[1] < b[1]
    \/ a[1] = b[1] /\ a[2] < b[2]
    \/ a[1] = b[1] /\ a[2] = b[2] /\ a[3] < b[3]

DateLE(a, b) == a = b \/ DateLess(a, b)

to_date(value) ==
    IF isna(value) \/ value = <<>> THEN None ELSE date_parser_parse(value)

normalize_tenor_to_yyyymm(value) ==
    IF isna(value) \/ value = <<>> THEN None
    ELSE LET text == Strip(value) IN
         IF Len(text) = 7 /\ text[5] = "-" THEN text
         ELSE LET dt == date_parser_parse(value) IN
              IF dt = None THEN None ELSE FmtYearMonth(dt[1], dt[2])

\* tenor_year, tenor_month = map(int, t.split("-")): raises unless exactly two
\* parts, both integers.
YmOk(t) ==
    LET p == SplitDash(t) IN Len(p) = 2 /\ AllDigits(p[1]) /\ AllDigits(p[2])

_ym_key(t) == LET p == SplitDash(t) IN <<IntOf(p[1]), IntOf(p[2])>>

YmLess(a, b) == a[1] < b[1] \/ (a[1] = b[1] /\ a[2] < b[2])

----------------------------------------------------------------------------
(* Notes *)

Note(msg, args) == <<msg, args>>

\* add_note replacing the existing notes by the new note.
add_note_Overwrite(existing, new_note) ==
    IF new_note = <<>> THEN existing ELSE new_note

add_note(existing, new_note) ==
    IF existing = <<>> THEN new_note
    ELSE IF new_note = <<>> THEN existing
    ELSE existing \o new_note

----------------------------------------------------------------------------
(* Prices: preprocess_prices *)

\* A price as a reduced fraction.
RECURSIVE GCD(_, _)
GCD(a, b) == IF b = 0 THEN a ELSE GCD(b, a % b)

Frac(n, d) == LET g == GCD(n, d) IN [num |-> n \div g, den |-> d \div g]

\* The group key of a price row: (Index, Tenor, Date).
GroupKey(r) == <<r.Index, r.Tenor, r.Date>>

\* groupby(dropna=True) leaves out the rows with a missing key value.
KeyComplete(r) == ~isna(r.Index) /\ ~isna(r.Tenor) /\ ~isna(r.Date)

\* groupby(sort=True) orders the groups by their key tuples.
KeyLess(a, b) ==
    \/ TextLess(a[1], b[1])
    \/ a[1] = b[1] /\ TextLess(a[2], b[2])
    \/ a[1] = b[1] /\ a[2] = b[2] /\ TextLess(a[3], b[3])

RECURSIVE SortedKeys(_)
SortedKeys(S) ==
    IF S = {} THEN <<>>
    ELSE LET k == CHOOSE x \in S : \A y \in S \ {x} : KeyLess(x, y)
         IN <<k>> \o SortedKeys(S \ {k})

RECURSIVE SumPrices(_, _)
SumPrices(rows, k) ==
    IF rows = <<>> THEN 0
    ELSE (IF KeyComplete(rows[1]) /\ GroupKey(rows[1]) = k THEN rows[1].Price.num ELSE 0)
         + SumPrices(Tail(rows), k)

GroupCount(rows, k) ==
    Cardinality({i \in 1..Len(rows) : KeyComplete(rows[i]) /\ GroupKey(rows[i]) = k})

\* df.groupby(group_cols, as_index=False).agg({"Price": "mean"})
GroupMean(rows) ==
    LET keys == SortedKeys({GroupKey(rows[i]) : i \in {j \in 1..Len(rows) : KeyComplete(rows[j])}})
    IN [g \in 1..Len(keys) |->
           [Index |-> keys[g][1], Tenor |-> keys[g][2], Date |-> keys[g][3],
            Price |-> Frac(SumPrices(rows, keys[g]), GroupCount(rows, keys[g]))]]

\* df.loc[df.groupby(group_cols).tail(1).index, ...]: the last row of each
\* group, in the order of the input.
RECURSIVE GroupTail(_)
GroupTail(rows) ==
    IF rows = <<>> THEN <<>>
    ELSE LET r == rows[1]
             rest == Tail(rows)
         IN (IF KeyComplete(r) /\ \A j \in 1..Len(rest) : GroupKey(rest[j]) # GroupKey(r)
             THEN <<r>> ELSE <<>>) \o GroupTail(rest)

\* Returns [raised, table]; the table always has a Tenor column.
preprocess_prices(prices, cfg) ==
    LET df == [hasTenor |-> TRUE,
               rows |-> IF prices.hasTenor THEN prices.rows
                        ELSE [i \in 1..Len(prices.rows) |->
                                 [prices.rows[i] EXCEPT !.Tenor = NaN]]]
    IN IF cfg.duplicate_price_method = "mean"
       THEN [raised |-> FALSE, table |-> [hasTenor |-> TRUE, rows |-> GroupMean(df.rows)]]
       ELSE IF cfg.duplicate_price_method = "last"
       THEN [raised |-> FALSE, table |-> [hasTenor |-> TRUE, rows |-> GroupTail(df.rows)]]
       ELSE [raised |-> TRUE, table |-> [hasTenor |-> TRUE, rows |-> <<>>]]

----------------------------------------------------------------------------
(* Tenor classification and price selection *)

\* classify_tenor with the valuation month itself counted as past (<= for <).
classify_tenor_CurrentAsPast(contract_tenor, val_date) ==
    LET tenor_norm == normalize_tenor_to_yyyymm(contract_tenor) IN
    IF tenor_norm = None
    THEN [ok |-> FALSE, raised |-> FALSE, contract_tenor_norm |-> None, tenor_type |-> "none"]
    ELSE IF ~YmOk(tenor_norm)
    THEN [ok |-> FALSE, raised |-> TRUE, contract_tenor_norm |-> tenor_norm, tenor_type |-> "none"]
    ELSE LET k == _ym_key(tenor_norm)
             v == <<val_date[1], val_date[2]>>
         IN [ok |-> TRUE, raised |-> FALSE, contract_tenor_norm |-> tenor_norm,
             tenor_type |-> IF YmLess(k, v) \/ k = v THEN "past" ELSE "future"]

\* Returns [ok, contract_tenor_norm, tenor_type, raised]: ok = FALSE is the None
\* result; raised = TRUE is the ValueError of map(int, ...).
classify_tenor(contract_tenor, val_date) ==
    LET tenor_norm == normalize_tenor_to_yyyymm(contract_tenor) IN
    IF tenor_norm = None
    THEN [ok |-> FALSE, raised |-> FALSE, contract_tenor_norm |-> None, tenor_type |-> "none"]
    ELSE IF ~YmOk(tenor_norm)
    THEN [ok |-> FALSE, raised |-> TRUE, contract_tenor_norm |-> tenor_norm, tenor_type |-> "none"]
    ELSE LET k == _ym_key(tenor_norm)
             v == <<val_date[1], val_date[2]>>
         IN [ok |-> TRUE, raised |-> FALSE, contract_tenor_norm |-> tenor_norm,
             tenor_type |-> IF YmLess(k, v) THEN "past"
                            ELSE IF k = v THEN "current" ELSE "future"]

_prepare_prices(prices) ==
    [i \in 1..Len(prices.rows) |->
        LET r == prices.rows[i]
            d == to_date(r.Date)
        IN [Index |-> r.Index, Tenor |-> r.Tenor, Date |-> r.Date, Price |-> r.Price,
            price_date |-> d,
            tenor_norm |-> IF prices.hasTenor THEN normalize_tenor_to_yyyymm(r.Tenor)
                           ELSE IF d # None THEN FmtYearMonth(d[1], d[2]) ELSE None]]

NoRow == [Index |-> None, Tenor |-> None, Date |-> None, Price |-> [num |-> 0, den |-> 1],
          price_date |-> None, tenor_norm |-> None]

\* df_valid["price_date"].max()
MaxDate(df) ==
    LET D == {df[i].price_date : i \in 1..Len(df)}
    IN CHOOSE m \in D : \A d \in D : DateLE(d, m)

\* FirstWithDate taking the last row of the date instead: .iloc[-1]
LastWithDate(df, d) ==
    df[CHOOSE i \in 1..Len(df) :
           df[i].price_date = d /\ \A j \in (i + 1)..Len(df) : df[j].price_date # d]

\* df_valid[df_valid["price_date"] == max_date].iloc[0]
FirstWithDate(df, d) ==
    df[CHOOSE i \in 1..Len(df) :
           df[i].price_date = d /\ \A j \in 1..(i - 1) : df[j].price_date # d]

\* Returns [found, row].
_latest_within_month(df) ==
    LET df_valid == SelectSeq(df, LAMBDA r : r.price_date # None) IN
    IF df_valid = <<>> THEN [found |-> FALSE, row |-> NoRow]
    ELSE [found |-> TRUE, row |-> FirstWithDate(df_valid, MaxDate(df_valid))]

\* .unique().tolist(): the distinct values in order of first appearance
RECURSIVE Unique(_)
Unique(s) ==
    IF s = <<>> THEN <<>>
    ELSE LET init == SubSeq(s, 1, Len(s) - 1)
             x == s[Len(s)]
         IN IF \E i \in 1..Len(init) : init[i] = x THEN Unique(init)
            ELSE Unique(init) \o <<x>>

\* sorted(tenor_months, key=_ym_key): stable insertion by key
RECURSIVE SortedByYm(_)
SortedByYm(s) ==
    IF s = <<>> THEN <<>>
    ELSE LET init == SortedByYm(SubSeq(s, 1, Len(s) - 1))
             x == s[Len(s)]
             n == Cardinality({i \in 1..Len(init) : ~YmLess(_ym_key(x), _ym_key(init[i]))})
         IN SubSeq(init, 1, n) \o <<x>> \o SubSeq(init, n + 1, Len(init))

\* FallbackChoice with the two preferences exchanged: a prior tenor first.
FallbackChoice_PriorFirst(later, prior) ==
    IF prior # <<>> THEN [kind |-> "prior", tenor |-> prior[Len(prior)]]
    ELSE IF later # <<>> THEN [kind |-> "later", tenor |-> later[1]]
    ELSE [kind |-> "none", tenor |-> None]

\* chosen_tenor: the nearest later tenor if there is one, else the latest prior
\* one.  Returns [kind, tenor] with kind "later", "prior" or "none".
FallbackChoice(later, prior) ==
    IF later # <<>> THEN [kind |-> "later", tenor |-> later[1]]
    ELSE IF prior # <<>> THEN [kind |-> "prior", tenor |-> prior[Len(prior)]]
    ELSE [kind |-> "none", tenor |-> None]

\* SelectFallback without the note that names the fallback tenor.
SelectFallback_Silent(subset, tenor, notes) ==
    LET \* from subset_chosen on: the latest price of the chosen tenor
        Latest(chosen_tenor, notes1, res) ==
            IF ~res.found
            THEN [raised |-> FALSE, found |-> FALSE, row |-> NoRow,
                  notes |-> add_note(notes1, <<Note("No prices with dates for fallback tenor",
                                                    chosen_tenor)>>)]
            ELSE [raised |-> FALSE, found |-> TRUE, row |-> res.row, notes |-> notes1]
        \* from chosen_tenor on
        Chosen(choice) ==
            IF choice.kind = "none"
            THEN [raised |-> FALSE, found |-> FALSE, row |-> NoRow,
                  notes |-> add_note(notes, <<Note("No alternative tenor available for fallback",
                                                   <<>>)>>)]
            ELSE Latest(choice.tenor, notes,
                        _latest_within_month(
                            SelectSeq(subset, LAMBDA r : r.tenor_norm = choice.tenor)))
        \* later and prior of the sorted tenor months
        Sorted(tenor_months_sorted, key) ==
            Chosen(FallbackChoice(
                SelectSeq(tenor_months_sorted, LAMBDA t : YmLess(key, _ym_key(t))),
                SelectSeq(tenor_months_sorted, LAMBDA t : YmLess(_ym_key(t), key))))
        Months(tenor_months) ==
            IF tenor_months = <<>>
            THEN [raised |-> FALSE, found |-> FALSE, row |-> NoRow,
                  notes |-> add_note(notes, <<Note("No tenor months available for index", <<>>)>>)]
            ELSE IF \E i \in 1..Len(tenor_months) : ~YmOk(tenor_months[i])
            THEN [raised |-> TRUE, found |-> FALSE, row |-> NoRow, notes |-> notes]
            ELSE Sorted(SortedByYm(tenor_months), _ym_key(tenor))
        WithTenor(with_tenor) ==
            Months(Unique([i \in 1..Len(with_tenor) |-> with_tenor[i].tenor_norm]))
    IN WithTenor(SelectSeq(subset, LAMBDA r : r.tenor_norm # None))

\* The fallback part of select_price_for_contract (from "Fallback logic" on).
\* Returns [raised, found, row, notes].
SelectFallback(subset, tenor, notes) ==
    LET \* from subset_chosen on: the latest price of the chosen tenor
        Latest(chosen_tenor, notes1, res) ==
            IF ~res.found
            THEN [raised |-> FALSE, found |-> FALSE, row |-> NoRow,
                  notes |-> add_note(notes1, <<Note("No prices with dates for fallback tenor",
                                                    chosen_tenor)>>)]
            ELSE [raised |-> FALSE, found |-> TRUE, row |-> res.row, notes |-> notes1]
        \* from chosen_tenor on
        Chosen(choice) ==
            IF choice.kind = "none"
            THEN [raised |-> FALSE, found |-> FALSE, row |-> NoRow,
                  notes |-> add_note(notes, <<Note("No alternative tenor available for fallback",
                                                   <<>>)>>)]
            ELSE Latest(choice.tenor,
                        IF choice.kind = "later"
                        THEN add_note(notes, <<Note("Used nearest later tenor as fallback",
                                                    choice.tenor)>>)
                        ELSE add_note(notes, <<Note("Used latest prior tenor as fallback",
                                                    choice.tenor)>>),
                        _latest_within_month(
                            SelectSeq(subset, LAMBDA r : r.tenor_norm = choice.tenor)))
        \* later and prior of the sorted tenor months
        Sorted(tenor_months_sorted, key) ==
            Chosen(FallbackChoice(
                SelectSeq(tenor_months_sorted, LAMBDA t : YmLess(key, _ym_key(t))),
                SelectSeq(tenor_months_sorted, LAMBDA t : YmLess(_ym_key(t), key))))
        Months(tenor_months) ==
            IF tenor_months = <<>>
            THEN [raised |-> FALSE, found |-> FALSE, row |-> NoRow,
                  notes |-> add_note(notes, <<Note("No tenor months available for index", <<>>)>>)]
            ELSE IF \E i \in 1..Len(tenor_months) : ~YmOk(tenor_months[i])
            THEN [raised |-> TRUE, found |-> FALSE, row |-> NoRow, notes |-> notes]
            ELSE Sorted(SortedByYm(tenor_months), _ym_key(tenor))
        WithTenor(with_tenor) ==
            Months(Unique([i \in 1..Len(with_tenor) |-> with_tenor[i].tenor_norm]))
    IN WithTenor(SelectSeq(subset, LAMBDA r : r.tenor_norm # None))

\* CurrentValid without the comparison with the valuation date.
CurrentValid_NoDateFilter(same_tenor, val_date) ==
    SelectSeq(same_tenor, LAMBDA r : r.price_date # None)

\* The "current" branch: the same-tenor rows dated on or before the valuation date.
CurrentValid(same_tenor, val_date) ==
    SelectSeq(same_tenor, LAMBDA r : r.price_date # None /\ DateLE(r.price_date, val_date))

\* Returns [raised, found, row, notes]: (None, notes) is found = FALSE.
select_price_for_contract(prices, base_index, tenor_ctx, val_date) ==
    LET tenor == tenor_ctx.contract_tenor_norm
        Branches(subset, same_tenor) ==
            IF subset = <<>>
            THEN [raised |-> FALSE, found |-> FALSE, row |-> NoRow,
                  notes |-> <<Note("No prices found for index", base_index)>>]
            ELSE IF tenor_ctx.tenor_type = "past"
            THEN LET res == _latest_within_month(same_tenor) IN
                 IF res.found
                 THEN [raised |-> FALSE, found |-> TRUE, row |-> res.row, notes |-> <<>>]
                 ELSE SelectFallback(subset, tenor,
                          add_note(<<>>, <<Note("No price within past tenor month", <<>>)>>))
            ELSE IF tenor_ctx.tenor_type = "current"
            THEN LET df_valid == CurrentValid(same_tenor, val_date) IN
                 IF df_valid # <<>>
                 THEN [raised |-> FALSE, found |-> TRUE,
                       row |-> FirstWithDate(df_valid, MaxDate(df_valid)), notes |-> <<>>]
                 ELSE SelectFallback(subset, tenor,
                          add_note(<<>>, <<Note("No price on/before valuation date for current tenor",
                                                <<>>)>>))
            ELSE IF tenor_ctx.tenor_type = "future"
            THEN LET res == _latest_within_month(same_tenor) IN
                 IF res.found
                 THEN [raised |-> FALSE, found |-> TRUE, row |-> res.row, notes |-> <<>>]
                 ELSE SelectFallback(subset, tenor,
                          add_note(<<>>, <<Note("No price for exact future tenor; applying fallback",
                                                <<>>)>>))
            ELSE SelectFallback(subset, tenor, <<>>)
        Subset(subset) == Branches(subset, SelectSeq(subset, LAMBDA r : r.tenor_norm = tenor))
    IN Subset(SelectSeq(_prepare_prices(prices), LAMBDA r : r.Index = base_index))

----------------------------------------------------------------------------
(* Contracts: adjustments *)

\* A numeric cell: [k, n] with k = "num" (the number n), "str" (a text that is
\* no number) or "nan" (missing).
Num(n) == [k |-> "num", n |-> n]
NumNaN == [k |-> "nan", n |-> 0]
NumStr == [k |-> "str", n |-> 0]

isnan(x) == x.k # "num"

\* pd.to_numeric(series, errors="coerce"), cell by cell
safe_to_numeric(x) == IF x.k = "num" THEN x ELSE NumNaN

UpperPairs == <<<<"a", "A">>, <<"b", "B">>, <<"c", "C">>, <<"d", "D">>, <<"m", "M">>,
                <<"n", "N">>, <<"t", "T">>, <<"w", "W">>, <<"x", "X">>>>

UpperCh(c) ==
    IF \E i \in 1..Len(UpperPairs) : UpperPairs[i][1] = c
    THEN UpperPairs[CHOOSE i \in 1..Len(UpperPairs) : UpperPairs[i][1] = c][2]
    ELSE c

LowerCh(c) ==
    IF \E i \in 1..Len(UpperPairs) : UpperPairs[i][2] = c
    THEN UpperPairs[CHOOSE i \in 1..Len(UpperPairs) : UpperPairs[i][2] = c][1]
    ELSE c

Upper(t) == [i \in 1..Len(t) |-> UpperCh(t[i])]
Lower(t) == [i \in 1..Len(t) |-> LowerCh(t[i])]

\* str(value) of a cell: a missing cell prints as "nan"
StrOf(v) == IF isna(v) THEN <<"n", "a", "n">> ELSE v

REFERENCE_FE == 62

\* float(filtered) for a text of digits and "-": [ok, val].  The modelled texts
\* have no decimal point.
FloatOf(f) ==
    IF AllDigits(f) THEN [ok |-> TRUE, val |-> IntOf(f)]
    ELSE IF Len(f) >= 2 /\ f[1] = "-" /\ AllDigits(Tail(f))
    THEN [ok |-> TRUE, val |-> 0 - IntOf(Tail(f))]
    ELSE [ok |-> FALSE, val |-> 0]

\* The Fe ratio in 62nds: 62 is the ratio 1.0.
compute_fe_ratio(typical_fe_value) ==
    IF isna(typical_fe_value) THEN REFERENCE_FE
    ELSE LET text == Strip(typical_fe_value) IN
         IF text = <<>> \/ Lower(text) = <<"n", "o", "a", "d", "j">> THEN REFERENCE_FE
         ELSE LET filtered == SelectSeq(text, LAMBDA ch : IsDigit(ch) \/ ch \in {".", "-"})
                  f == FloatOf(filtered)
              IN IF f.ok THEN f.val ELSE REFERENCE_FE

\* convert_wmt_to_dmt without the default: a missing moisture counts as zero.
convert_wmt_to_dmt_NoDefault(quantity, moisture, default_moisture) ==
    IF isnan(quantity) THEN [dmt |-> NumNaN, note |-> <<Note("Missing quantity", <<>>)>>]
    ELSE IF isnan(moisture)
    THEN [dmt |-> Num(quantity.n * 100),
          note |-> add_note(<<>>, <<Note("Moisture missing; defaulted to", Fmt2(default_moisture))>>)]
    ELSE [dmt |-> Num(quantity.n * (100 - moisture.n)), note |-> <<>>]

\* Returns [dmt, note]: the DMT quantity in hundredths of a ton.
convert_wmt_to_dmt(quantity, moisture, default_moisture) ==
    IF isnan(quantity) THEN [dmt |-> NumNaN, note |-> <<Note("Missing quantity", <<>>)>>]
    ELSE IF isnan(moisture)
    THEN [dmt |-> Num(quantity.n * (100 - default_moisture)),
          note |-> add_note(<<>>, <<Note("Moisture missing; defaulted to", Fmt2(default_moisture))>>)]
    ELSE [dmt |-> Num(quantity.n * (100 - moisture.n)), note |-> <<>>]

required_cols == {"contract_id", "base_index", "tenor", "quantity", "unit", "cost", "discount"}

\* One iteration of the unit loop of prepare_contracts: [raised, dmt, notes].
UnitDispatch(row, cfg, has_moisture) ==
    LET unit == Upper(StrOf(row.unit))
        qty == safe_to_numeric(row.quantity)
        moisture == IF has_moisture THEN safe_to_numeric(row.moisture) ELSE NumNaN
    IN IF unit = <<"D", "M", "T">>
       THEN [raised |-> FALSE, notes |-> <<>>,
             dmt |-> IF isnan(qty) THEN NumNaN ELSE Num(100 * qty.n)]
       ELSE IF unit = <<"W", "M", "T">>
       THEN LET c == convert_wmt_to_dmt(qty, moisture, cfg.default_moisture)
            IN [raised |-> FALSE, notes |-> add_note(<<>>, c.note), dmt |-> c.dmt]
       ELSE [raised |-> cfg.invalid_unit_policy = "fail",
             notes |-> add_note(<<>>, <<Note("Unsupported unit for contract",
                                             <<unit, row.contract_id>>)>>),
             dmt |-> NumNaN]

\* neg_disc_mask without the missing discounts and without zero.
neg_disc_mask_NegativeOnly(row) ==
    LET d == safe_to_numeric(row.discount) IN ~isnan(d) /\ d.n < 0

neg_disc_mask(row) ==
    LET d == safe_to_numeric(row.discount) IN isnan(d) \/ d.n <= 0

\* prepare_contracts adding the discount note to every row of a table in which
\* some row has a non-positive or missing discount.
prepare_contracts_NoteAllRows(df, cfg) ==
    LET has_moisture == "moisture" \notin df.missing
        disp == [i \in 1..Len(df.rows) |-> UnitDispatch(df.rows[i], cfg, has_moisture)]
        any_neg == \E i \in 1..Len(df.rows) : neg_disc_mask(df.rows[i])
    IN
    IF df.missing \cap required_cols # {} THEN [raised |-> TRUE, rows |-> <<>>]
    ELSE IF "typical_fe" \in df.missing THEN [raised |-> TRUE, rows |-> <<>>]
    ELSE IF \E i \in 1..Len(df.rows) : disp[i].raised THEN [raised |-> TRUE, rows |-> <<>>]
    ELSE IF any_neg /\ cfg.raise_on_negative_discount THEN [raised |-> TRUE, rows |-> <<>>]
    ELSE [raised |-> FALSE,
          rows |-> [i \in 1..Len(df.rows) |->
              LET row == df.rows[i] IN
              [contract_id |-> row.contract_id,
               base_index |-> row.base_index,
               tenor |-> row.tenor,
               unit |-> row.unit,
               quantity |-> safe_to_numeric(row.quantity),
               moisture |-> IF has_moisture THEN safe_to_numeric(row.moisture) ELSE NumNaN,
               cost |-> safe_to_numeric(row.cost),
               discount |-> safe_to_numeric(row.discount),
               fe_ratio |-> compute_fe_ratio(row.typical_fe),
               dmt_qty |-> disp[i].dmt,
               notes |-> IF any_neg
                         THEN add_note(disp[i].notes,
                                       <<Note("Non-positive or missing discount", <<>>)>>)
                         ELSE disp[i].notes]]]

\* Returns [raised, rows]: df is [missing, rows], missing the columns the table
\* does not have.
prepare_contracts(df, cfg) ==
    LET has_moisture == "moisture" \notin df.missing
        disp == [i \in 1..Len(df.rows) |-> UnitDispatch(df.rows[i], cfg, has_moisture)]
        any_neg == \E i \in 1..Len(df.rows) : neg_disc_mask(df.rows[i])
    IN
    IF df.missing \cap required_cols # {} THEN [raised |-> TRUE, rows |-> <<>>]
    ELSE IF "typical_fe" \in df.missing THEN [raised |-> TRUE, rows |-> <<>>]
    ELSE IF \E i \in 1..Len(df.rows) : disp[i].raised THEN [raised |-> TRUE, rows |-> <<>>]
    ELSE IF any_neg /\ cfg.raise_on_negative_discount THEN [raised |-> TRUE, rows |-> <<>>]
    ELSE [raised |-> FALSE,
          rows |-> [i \in 1..Len(df.rows) |->
              LET row == df.rows[i] IN
              [contract_id |-> row.contract_id,
               base_index |-> row.base_index,
               tenor |-> row.tenor,
               unit |-> row.unit,
               quantity |-> safe_to_numeric(row.quantity),
               moisture |-> IF has_moisture THEN safe_to_numeric(row.moisture) ELSE NumNaN,
               cost |-> safe_to_numeric(row.cost),
               discount |-> safe_to_numeric(row.discount),
               fe_ratio |-> compute_fe_ratio(row.typical_fe),
               dmt_qty |-> disp[i].dmt,
               notes |-> IF neg_disc_mask(row)
                         THEN add_note(disp[i].notes,
                                       <<Note("Non-positive or missing discount", <<>>)>>)
                         ELSE disp[i].notes]]]

----------------------------------------------------------------------------
(* The pipeline: calculate_mtm *)

\* A float of the report: [na, num, den], the value num / den unless na.
Val(n, d) == [na |-> FALSE, num |-> n, den |-> d]
NaNVal == [na |-> TRUE, num |-> 0, den |-> 1]

FloatOfNum(x) == IF isnan(x) THEN NaNVal ELSE Val(x.n, 1)

\* (price_used * fe_ratio + cost) * discount * dmt_qty; a NaN operand gives NaN.
\* fe_ratio is in 62nds, discount and dmt_qty in hundredths.
MtmFormula(price_used, fe_ratio, cost, discount, dmt_qty) ==
    IF price_used.na \/ cost.na \/ discount.na \/ dmt_qty.na THEN NaNVal
    ELSE Val((price_used.num * fe_ratio + cost.num * REFERENCE_FE * price_used.den)
                 * discount.num * dmt_qty.num,
             price_used.den * REFERENCE_FE * 100 * 100)

\* PriceUsed with a price of zero where no price row was selected.
PriceUsed_ZeroWhenMissing(picked) ==
    IF picked.found THEN Val(picked.row.Price.num, picked.row.Price.den) ELSE Val(0, 1)

\* price_used: float(price_row["Price"]), or np.nan when no row was selected
PriceUsed(picked) ==
    IF picked.found THEN Val(picked.row.Price.num, picked.row.Price.den) ELSE NaNVal

\* if np.isnan(price_used) or np.isnan(dmt_qty) or np.isnan(discount)
MtmMissing(price_used, dmt_qty, discount) == price_used.na \/ dmt_qty.na \/ discount.na

\* One iteration of the loop over contracts_prepared: [raised, record].
MtmRow(row, prices, val_date) ==
    LET \* lines 95-133: the record of the row from the selected price
        Record(tenor_ctx, picked) ==
            LET notes1 == add_note(row.notes, picked.notes)
                price_used == PriceUsed(picked)
                price_date == IF picked.found THEN picked.row.Date ELSE None
                cost == FloatOfNum(row.cost)
                discount == FloatOfNum(row.discount)
                dmt_qty == FloatOfNum(row.dmt_qty)
                missing == MtmMissing(price_used, dmt_qty, discount)
            IN [raised |-> picked.raised,
                record |->
                  [contract_id |-> row.contract_id,
                   base_index |-> row.base_index,
                   tenor |-> row.tenor,
                   tenor_type |-> tenor_ctx.tenor_type,
                   price_used_date |-> price_date,
                   price_used |-> price_used,
                   fe_ratio |-> row.fe_ratio,
                   unit |-> row.unit,
                   moisture |-> row.moisture,
                   dmt_qty |-> dmt_qty,
                   cost |-> cost,
                   discount |-> discount,
                   mtm_value |-> IF missing THEN NaNVal
                                 ELSE MtmFormula(price_used, row.fe_ratio, cost, discount, dmt_qty),
                   notes |-> IF missing
                             THEN add_note(notes1,
                                      <<Note("Missing price, quantity, or discount; MTM not computed",
                                             <<>>)>>)
                             ELSE notes1]]
        \* lines 81-93: the price of the classified tenor
        Classified(tenor_ctx) ==
            Record(tenor_ctx,
                   IF tenor_ctx.ok
                   THEN select_price_for_contract(prices, row.base_index, tenor_ctx, val_date)
                   ELSE [raised |-> tenor_ctx.raised, found |-> FALSE, row |-> NoRow,
                         notes |-> <<Note("Could not normalize tenor", <<>>)>>])
    IN Classified(classify_tenor(row.tenor, val_date))

NoTable == [hasTenor |-> TRUE, rows |-> <<>>]
NoReport == [returned |-> FALSE, rows |-> <<>>]
NoSel == [called |-> FALSE, base_index |-> None,
          tenor_ctx |-> [ok |-> FALSE, raised |-> FALSE, contract_tenor_norm |-> None,
                         tenor_type |-> "none"],
          res |-> [raised |-> FALSE, found |-> FALSE, row |-> NoRow, notes |-> <<>>]]

\* calculate_mtm, line 72
PrepareContracts ==
    /\ pc = "start"
    /\ LET r == prepare_contracts(contracts_df, config) IN
       /\ contracts_prepared' = r.rows
       /\ pc' = IF r.raised THEN "raised" ELSE "prepared"
    /\ UNCHANGED <<contracts_df, prices_df, valuation_date, config,
                   prices_prepared, records, report, sel>>

\* calculate_mtm, line 73
PreprocessPrices ==
    /\ pc = "prepared"
    /\ LET r == preprocess_prices(prices_df, config) IN
       /\ prices_prepared' = r.table
       /\ pc' = IF r.raised THEN "raised" ELSE "loop"
    /\ UNCHANGED <<contracts_df, prices_df, valuation_date, config,
                   contracts_prepared, records, report, sel>>

\* calculate_mtm, lines 77-133: one iteration
ProcessRow ==
    /\ pc = "loop"
    /\ Len(records) < Len(contracts_prepared)
    /\ LET Step(r) ==
               IF r.raised
               THEN pc' = "raised" /\ records' = records
               ELSE pc' = pc /\ records' = Append(records, r.record)
       IN Step(MtmRow(contracts_prepared[Len(records) + 1], prices_prepared, valuation_date))
    /\ UNCHANGED <<contracts_df, prices_df, valuation_date, config,
                   contracts_prepared, prices_prepared, report, sel>>

\* calculate_mtm, lines 135-136
ReturnReport ==
    /\ pc = "loop"
    /\ Len(records) = Len(contracts_prepared)
    /\ report' = [returned |-> TRUE, rows |-> records]
    /\ pc' = "done"
    /\ UNCHANGED <<contracts_df, prices_df, valuation_date, config,
                   contracts_prepared, prices_prepared, records, sel>>

\* A call of select_price_for_contract on the prices table as given, for the
\* index and the classified tenor of one of the contracts.
SelectDirect ==
    /\ pc = "start"
    /\ LET Call(base_index, ctx) ==
               /\ ctx.ok
               /\ sel' = [called |-> TRUE, base_index |-> base_index, tenor_ctx |-> ctx,
                          res |-> select_price_for_contract(prices_df, base_index, ctx,
                                                            valuation_date)]
       IN \E i \in 1..Len(contracts_df.rows) :
              Call(contracts_df.rows[i].base_index,
                   classify_tenor(contracts_df.rows[i].tenor, valuation_date))
    /\ pc' = "selected"
    /\ UNCHANGED <<contracts_df, prices_df, valuation_date, config,
                   contracts_prepared, prices_prepared, records, report>>

Next ==
    \/ PrepareContracts
    \/ PreprocessPrices
    \/ ProcessRow
    \/ ReturnReport
    \/ SelectDirect

----------------------------------------------------------------------------
(* Inputs *)

MaxPrices == 2       \* rows of a drawn prices table
MaxContracts == 2    \* rows of a drawn contracts table of several rows

Txt_A == <<"A">>
Txt_B == <<"B">>
T_2025_05 == <<"2", "0", "2", "5", "-", "0", "5">>
T_2025_06 == <<"2", "0", "2", "5", "-", "0", "6">>
T_2025_07 == <<"2", "0", "2", "5", "-", "0", "7">>
T_2025_06_blank == T_2025_06 \o <<" ">>
T_malformed == <<"a", "b", "c", "d", "-", "e", "f">>
T_2025_13 == <<"2", "0", "2", "5", "-", "1", "3">>
T_garbage == <<"x", "x">>
D_2025_06_10 == T_2025_06 \o <<"-", "1", "0">>
D_2025_06_20 == T_2025_06 \o <<"-", "2", "0">>
D_2025_07_05 == T_2025_07 \o <<"-", "0", "5">>

PriceRow(index, tenor, dt, price) ==
    [Index |-> index, Tenor |-> tenor, Date |-> dt, Price |-> [num |-> price, den |-> 1]]

PriceRowPool ==
    {PriceRow(Txt_A, t, d, 10) : t \in {T_2025_05, T_2025_06, T_2025_07},
                                 d \in {D_2025_06_10, D_2025_06_20}}
    \cup {PriceRow(Txt_A, t, D_2025_06_10, 12) : t \in {T_2025_06, T_2025_06_blank}}
    \cup {PriceRow(Txt_A, T_2025_07, D_2025_07_05, 10)}
    \cup {PriceRow(Txt_A, NaN, D_2025_06_10, 10)}
    \cup {PriceRow(Txt_A, T_2025_07, d, 10) : d \in {T_garbage, NaN}}
    \cup {PriceRow(Txt_A, T_malformed, D_2025_06_10, 10)}
    \cup {PriceRow(Txt_B, T_2025_06, D_2025_06_10, 10)}

\* The prices tables of the runs that vary the contracts.
SmallPriceTables ==
    {[hasTenor |-> TRUE, rows |-> s] :
        s \in {<<>>,
               <<PriceRow(Txt_A, T_2025_06, D_2025_06_10, 10)>>,
               <<PriceRow(Txt_A, T_2025_06, D_2025_06_10, 10),
                 PriceRow(Txt_A, T_2025_07, D_2025_07_05, 12)>>}}

SeqsUpTo(S, n) == UNION {[1..k -> S] : k \in 0..n}

\* A prices table without a Tenor column has no tenor cell in any row.
PriceTables(pool) ==
    {[hasTenor |-> TRUE, rows |-> s] : s \in SeqsUpTo(pool, MaxPrices)}
    \cup {[hasTenor |-> FALSE,
           rows |-> [i \in 1..Len(s) |-> [s[i] EXCEPT !.Tenor = NaN]]] :
              s \in SeqsUpTo(pool, MaxPrices)}

ContractIds == <<<<"C", "1">>, <<"C", "2">>, <<"C", "3">>, <<"C", "4">>>>

\* The contract of the end-to-end scenario, with a quantity of 10 WMT: moisture
\* 0.08, Fe 65, cost 5, discount 0.98.
BaseContract ==
    [contract_id |-> ContractIds[1], base_index |-> Txt_A, tenor |-> T_2025_06,
     quantity |-> Num(10), unit |-> <<"W", "M", "T">>, moisture |-> Num(8),
     typical_fe |-> <<"6", "5">>, cost |-> Num(5), discount |-> Num(98)]

OneFieldOff ==
    {[BaseContract EXCEPT !.tenor = t] :
        t \in {T_2025_05, T_2025_07, D_2025_06_20, T_2025_06_blank, T_garbage, T_malformed,
               T_2025_13, NaN}}
    \cup {[BaseContract EXCEPT !.base_index = Txt_B]}
    \cup {[BaseContract EXCEPT !.quantity = q] : q \in {NumStr, NumNaN}}
    \cup {[BaseContract EXCEPT !.unit = u] :
             u \in {<<"D", "M", "T">>, <<"w", "m", "t">>, <<"M", "T">>, NaN}}
    \cup {[BaseContract EXCEPT !.moisture = m] : m \in {NumStr, NumNaN}}
    \cup {[BaseContract EXCEPT !.typical_fe = f] :
             f \in {NaN, <<>>, <<"N", "o", "A", "d", "j">>, <<"n", "o", "a", "d", "j">>,
                    <<"6", "2">>, <<"6", "5", "%">>, <<"-", "6", "2">>, <<"x", "x">>}}
    \cup {[BaseContract EXCEPT !.cost = c] : c \in {NumStr, NumNaN}}
    \cup {[BaseContract EXCEPT !.discount = d] : d \in {Num(0), Num(0 - 5), NumStr, NumNaN}}

SeveralFieldsOff ==
    {[BaseContract EXCEPT !.tenor = t, !.unit = u, !.moisture = m, !.discount = d,
                          !.quantity = q] :
        t \in {T_2025_06, T_2025_07, T_garbage}, u \in {<<"W", "M", "T">>, <<"M", "T">>},
        m \in {Num(8), NumNaN}, d \in {Num(98), NumNaN}, q \in {Num(10), NumNaN}}

ContractPool == {BaseContract} \cup OneFieldOff \cup SeveralFieldsOff

SmallContractPool ==
    {BaseContract, [BaseContract EXCEPT !.tenor = T_2025_07],
     [BaseContract EXCEPT !.tenor = T_malformed],
     [BaseContract EXCEPT !.unit = <<"M", "T">>, !.discount = Num(0)]}

\* The rows of a contracts table carry their position as contract id.
WithIds(s) == [i \in 1..Len(s) |-> [s[i] EXCEPT !.contract_id = ContractIds[i]]]

Config(method, policy, moisture, raise) ==
    [duplicate_price_method |-> method, invalid_unit_policy |-> policy,
     default_moisture |-> moisture, raise_on_negative_discount |-> raise]

DefaultConfig == Config("mean", "skip", 0, FALSE)

ValuationDates == {<<2025, 6, 15>>, <<2025, 6, 30>>, <<2025, 7, 1>>}

\* Rich prices tables, one contract of a past, current or future tenor.
InitPrices ==
    /\ prices_df \in PriceTables(PriceRowPool)
    /\ contracts_df \in {[missing |-> {}, rows |-> <<[BaseContract EXCEPT !.tenor = t]>>] :
                            t \in {T_2025_05, T_2025_06, T_2025_07}}
    /\ config \in {Config(m, "skip", 0, FALSE) : m \in {"mean", "last"}}

\* Rich contracts tables, small prices tables, every configuration.
InitContracts ==
    /\ prices_df \in SmallPriceTables
    /\ \E missing \in {{}, {"moisture"}, {"typical_fe"}, {"cost"}} :
         contracts_df \in
            {[missing |-> missing, rows |-> WithIds(s)] :
                s \in {<<c>> : c \in ContractPool} \cup SeqsUpTo(SmallContractPool, MaxContracts)}
    /\ config \in {Config(m, p, d, r) : m \in {"mean", "last", "median"}, p \in {"skip", "fail"},
                                        d \in {0, 5}, r \in BOOLEAN}

Init ==
    /\ InitPrices \/ InitContracts
    /\ valuation_date \in ValuationDates
    /\ pc = "start"
    /\ contracts_prepared = <<>>
    /\ prices_prepared = NoTable
    /\ records = <<>>
    /\ report = NoReport
    /\ sel = NoSel

Spec == Init /\ [][Next]_vars

TypeOK == pc \in {"start", "prepared", "loop", "done", "raised", "selected"}

----------------------------------------------------------------------------
(* Claims *)

HasNote(notes, msg) == \E i \in 1..Len(notes) : notes[i][1] = msg

Finished == pc \in {"done", "raised"}

\* The tables have the columns of the input schemas and the configuration is
\* the default one.
DefaultRun == config = DefaultConfig /\ contracts_df.missing = {}

\* C1: under the default configuration calculate_mtm returns a report with
\* exactly one record per input contract row, in input order, whatever fails in
\* tenor classification or price selection.
C1_OneRecordPerContract ==
    (DefaultRun /\ Finished) =>
        /\ report.returned
        /\ Len(report.rows) = Len(contracts_df.rows)
        /\ \A i \in 1..Len(report.rows) :
               report.rows[i].contract_id = contracts_df.rows[i].contract_id

FallbackNotes == {"Used nearest later tenor as fallback", "Used latest prior tenor as fallback"}

UsedFallback(notes) == \E i \in 1..Len(notes) : notes[i][1] \in FallbackNotes

\* C2 as stated: a price selected for a "current" contract is never dated after
\* the valuation date, on any path, the fallback included.
C2_CurrentNeverAfterValuation ==
    /\ (sel.called /\ sel.tenor_ctx.tenor_type = "current" /\ sel.res.found)
           => DateLE(sel.res.row.price_date, valuation_date)
    /\ \A i \in 1..Len(records) :
           (records[i].tenor_type = "current" /\ ~records[i].price_used.na)
               => /\ to_date(records[i].price_used_date) # None
                  /\ DateLE(to_date(records[i].price_used_date), valuation_date)

\* C2 amended: a price of the contract's own tenor selected for a "current"
\* contract (no fallback applied) is dated on or before the valuation date.
C2_CurrentSameTenorNotAfterValuation ==
    /\ (/\ sel.called /\ sel.tenor_ctx.tenor_type = "current" /\ sel.res.found
        /\ sel.res.row.tenor_norm = sel.tenor_ctx.contract_tenor_norm)
           => DateLE(sel.res.row.price_date, valuation_date)
    /\ \A i \in 1..Len(records) :
           (/\ records[i].tenor_type = "current" /\ ~records[i].price_used.na
            /\ ~UsedFallback(records[i].notes))
               => /\ to_date(records[i].price_used_date) # None
                  /\ DateLE(to_date(records[i].price_used_date), valuation_date)

\* C2 witness: a same-tenor price was selected for a "current" contract while
\* the table also holds a price of that index and tenor dated after the
\* valuation date.
C2_Witness ==
    /\ sel.called /\ sel.tenor_ctx.tenor_type = "current" /\ sel.res.found
    /\ sel.res.row.tenor_norm = sel.tenor_ctx.contract_tenor_norm
    /\ \E i \in 1..Len(prices_df.rows) :
           LET r == _prepare_prices(prices_df)[i] IN
           /\ r.Index = sel.base_index
           /\ r.tenor_norm = sel.tenor_ctx.contract_tenor_norm
           /\ r.price_date # None
           /\ DateLess(valuation_date, r.price_date)

\* C5: an unparseable tenor, in a contract row or a price row, never aborts the
\* run under the default configuration; the contract whose tenor cannot be
\* normalized gets null derived values and a note.
C5_BadTenorNeverAborts ==
    DefaultRun =>
        /\ pc # "raised"
        /\ \A i \in 1..Len(records) :
               records[i].tenor_type = "none"
                   => /\ records[i].price_used.na
                      /\ records[i].mtm_value.na
                      /\ HasNote(records[i].notes, "Could not normalize tenor")

ReachedFallback(notes) ==
    /\ notes # <<>>
    /\ notes[1][1] \in {"No price within past tenor month",
                        "No price on/before valuation date for current tenor",
                        "No price for exact future tenor; applying fallback"}

\* The normalized tenors that have data for an index in a prices table.
IndexTenors(table, idx) ==
    LET p == _prepare_prices(table) IN
    {p[i].tenor_norm : i \in {j \in 1..Len(p) : p[j].Index = idx /\ p[j].tenor_norm # None}}

LaterTenors(T, tenor) == {t \in T : YmLess(_ym_key(tenor), _ym_key(t))}
PriorTenors(T, tenor) == {t \in T : YmLess(_ym_key(t), _ym_key(tenor))}

\* The fallback tenor named in notes is the one the rule prescribes for a
\* contract of the given index and canonical tenor.
FallbackAsSpecified(table, idx, tenor, notes, found) ==
    LET T == IndexTenors(table, idx)
        L == LaterTenors(T, tenor)
        P == PriorTenors(T, tenor)
    IN (ReachedFallback(notes) /\ \A t \in T : YmOk(t)) =>
        /\ L # {} =>
              /\ \E i \in 1..Len(notes) : \E t \in L :
                    /\ notes[i] = Note("Used nearest later tenor as fallback", t)
                    /\ \A u \in L : ~YmLess(_ym_key(u), _ym_key(t))
              /\ ~HasNote(notes, "Used latest prior tenor as fallback")
        /\ (L = {} /\ P # {}) =>
              /\ \E i \in 1..Len(notes) : \E t \in P :
                    /\ notes[i] = Note("Used latest prior tenor as fallback", t)
                    /\ \A u \in P : ~YmLess(_ym_key(t), _ym_key(u))
              /\ ~HasNote(notes, "Used nearest later tenor as fallback")
        /\ (L = {} /\ P = {}) => (~found /\ ~UsedFallback(notes))

\* C3: when selection reaches the fallback step, the fallback tenor is the
\* nearest tenor strictly later than the contract's among the tenors with data
\* for the index; only if there is none, the nearest strictly earlier one; if
\* there is neither, no price is selected.  A selected fallback price is of the
\* tenor named.
C3_FallbackPrefersNearestLater ==
    /\ (sel.called /\ ~sel.res.raised) =>
          /\ FallbackAsSpecified(prices_df, sel.base_index,
                 sel.tenor_ctx.contract_tenor_norm, sel.res.notes, sel.res.found)
          /\ (sel.res.found /\ UsedFallback(sel.res.notes)) =>
                 \E i \in 1..Len(sel.res.notes) :
                     /\ sel.res.notes[i][1] \in FallbackNotes
                     /\ sel.res.notes[i][2] = sel.res.row.tenor_norm
    /\ \A i \in 1..Len(records) :
          records[i].tenor_type # "none" =>
              FallbackAsSpecified(prices_prepared, records[i].base_index,
                  normalize_tenor_to_yyyymm(records[i].tenor), records[i].notes,
                  ~records[i].price_used.na)

\* C3 witness: the fallback was reached with both a later and an earlier tenor
\* in the table, and a price of the later one was selected.
C3_Witness ==
    /\ sel.called /\ sel.res.found
    /\ HasNote(sel.res.notes, "Used nearest later tenor as fallback")
    /\ PriorTenors(IndexTenors(prices_df, sel.base_index),
                   sel.tenor_ctx.contract_tenor_norm) # {}

\* The tenor whose prices a record's price was selected from: the fallback tenor
\* its notes name, else the contract's canonical tenor.
ChosenTenor(rec) ==
    IF UsedFallback(rec.notes)
    THEN rec.notes[CHOOSE i \in 1..Len(rec.notes) : rec.notes[i][1] \in FallbackNotes][2]
    ELSE normalize_tenor_to_yyyymm(rec.tenor)

\* The rows of the input prices table as preprocess_prices groups them.
InputRows ==
    [i \in 1..Len(prices_df.rows) |->
        IF prices_df.hasTenor THEN prices_df.rows[i]
        ELSE [prices_df.rows[i] EXCEPT !.Tenor = NaN]]

\* The input rows that are candidates for a record's price: of its index and
\* chosen tenor, dated, and for a same-tenor "current" selection not dated after
\* the valuation date.
CandidateRows(rec) ==
    {i \in 1..Len(InputRows) :
        /\ KeyComplete(InputRows[i])
        /\ InputRows[i].Index = rec.base_index
        /\ normalize_tenor_to_yyyymm(InputRows[i].Tenor) = ChosenTenor(rec)
        /\ to_date(InputRows[i].Date) # None
        /\ (rec.tenor_type = "current" /\ ~UsedFallback(rec.notes))
               => DateLE(to_date(InputRows[i].Date), valuation_date)}

\* The candidates with the latest date.
TopRows(rec) ==
    {i \in CandidateRows(rec) :
        \A j \in CandidateRows(rec) :
            DateLE(to_date(InputRows[j].Date), to_date(InputRows[i].Date))}

LastIdx(k) == CHOOSE i \in 1..Len(InputRows) :
    GroupKey(InputRows[i]) = k /\ \A j \in (i + 1)..Len(InputRows) : GroupKey(InputRows[j]) # k

\* The record's price and date are those of the price point with group key k.
IsPointOf(rec, k) ==
    /\ rec.price_used_date = k[3]
    /\ IF config.duplicate_price_method = "mean"
       THEN rec.price_used.num * GroupCount(InputRows, k)
                = rec.price_used.den * SumPrices(InputRows, k)
       ELSE /\ rec.price_used.num = InputRows[LastIdx(k)].Price.num
            /\ rec.price_used.den = 1

Priced(rec) == rec.tenor_type # "none" /\ ~rec.price_used.na

\* C4 as stated: the selected price point has the latest date of its tenor's
\* candidates and, among the points of that date, is the one that appears first
\* in the input order of the prices table.
C4_TieFirstInInputOrder ==
    \A n \in 1..Len(records) :
        Priced(records[n]) =>
            /\ TopRows(records[n]) # {}
            /\ \E i \in TopRows(records[n]) :
                  /\ \A j \in TopRows(records[n]) : i <= j
                  /\ IsPointOf(records[n], GroupKey(InputRows[i]))

\* C4 amended: the selected price point has the latest date of its tenor's
\* candidates and, among the points of that date, is the first in the order of
\* the preprocessed table: under "mean" the one whose (Index, Tenor, Date) texts
\* sort lowest, under "last" the one whose last row comes first in the input.
C4_TieFirstInPreprocessedOrder ==
    \A n \in 1..Len(records) :
        Priced(records[n]) =>
            /\ TopRows(records[n]) # {}
            /\ \E i \in TopRows(records[n]) :
                  LET k == GroupKey(InputRows[i]) IN
                  /\ \A j \in TopRows(records[n]) :
                        LET l == GroupKey(InputRows[j]) IN
                        IF config.duplicate_price_method = "mean"
                        THEN k = l \/ KeyLess(k, l)
                        ELSE LastIdx(k) <= LastIdx(l)
                  /\ IsPointOf(records[n], k)

\* C4 witness: a record's price was selected among two price points of the
\* latest date, and it is not the price of the one that comes first in the
\* input.
C4_Witness ==
    \E n \in 1..Len(records) :
        /\ Priced(records[n])
        /\ \E i, j \in TopRows(records[n]) :
              /\ i < j
              /\ \A m \in TopRows(records[n]) : i <= m
              /\ GroupKey(InputRows[i]) # GroupKey(InputRows[j])
              /\ ~IsPointOf(records[n], GroupKey(InputRows[i]))
              /\ IsPointOf(records[n], GroupKey(InputRows[j]))

MissingNote == "Missing price, quantity, or discount; MTM not computed"

\* C6: a record's MTM value is non-null, and equal to (selected_price * fe_ratio
\* + cost) * discount * dmt_quantity, if and only if selected price, DMT
\* quantity and discount are all non-null; otherwise it is null and the notes
\* hold the missing-MTM note.  No record has a null MTM value without that note.
C6_MtmNullIffInputMissing ==
    \A n \in 1..Len(records) :
        LET rec == records[n]
            present == ~rec.price_used.na /\ ~rec.dmt_qty.na /\ ~rec.discount.na
        IN /\ ~rec.mtm_value.na <=> present
           /\ rec.mtm_value.na => HasNote(rec.notes, MissingNote)
           /\ ~rec.mtm_value.na =>
                 /\ ~rec.cost.na
                 /\ rec.mtm_value.den = rec.price_used.den * REFERENCE_FE * 100 * 100
                 /\ rec.mtm_value.num
                       = (rec.price_used.num * rec.fe_ratio
                              + rec.cost.num * REFERENCE_FE * rec.price_used.den)
                         * rec.discount.num * rec.dmt_qty.num

\* The rows of the preprocessed table for an index, with dates and tenors.
PreparedFor(idx) ==
    SelectSeq(_prepare_prices(prices_prepared), LAMBDA r : r.Index = idx)

\* Price selection has nothing to return for a contract of index idx, canonical
\* tenor ct and classification ttype: no row of the index, or no qualifying
\* same-tenor price and no dated price in the fallback tenor.
SelectionFails(idx, ct, ttype) ==
    LET rows == PreparedFor(idx)
        T == IndexTenors(prices_prepared, idx)
        L == LaterTenors(T, ct)
        P == PriorTenors(T, ct)
        same == \E i \in 1..Len(rows) :
                    /\ rows[i].tenor_norm = ct /\ rows[i].price_date # None
                    /\ ttype = "current" => DateLE(rows[i].price_date, valuation_date)
        fb == IF L # {} THEN CHOOSE t \in L : \A u \in L : ~YmLess(_ym_key(u), _ym_key(t))
              ELSE CHOOSE t \in P : \A u \in P : ~YmLess(_ym_key(t), _ym_key(u))
    IN \/ rows = <<>>
       \/ /\ ~same
          /\ \/ L = {} /\ P = {}
             \/ ~\E i \in 1..Len(rows) : rows[i].tenor_norm = fb /\ rows[i].price_date # None

\* The note of the failure that SelectionFails describes.
FailureNoted(idx, ct, notes) ==
    LET rows == PreparedFor(idx)
        T == IndexTenors(prices_prepared, idx)
    IN IF rows = <<>> THEN \E i \in 1..Len(notes) : notes[i] = Note("No prices found for index", idx)
       ELSE IF T = {} THEN HasNote(notes, "No tenor months available for index")
       ELSE IF LaterTenors(T, ct) = {} /\ PriorTenors(T, ct) = {}
       THEN HasNote(notes, "No alternative tenor available for fallback")
       ELSE \E i \in 1..Len(notes) : \E t \in T :
                notes[i] = Note("No prices with dates for fallback tenor", t)

\* The classification of a canonical tenor by year and month.
TenorClass(ct) ==
    LET k == _ym_key(ct)
        v == <<valuation_date[1], valuation_date[2]>>
    IN IF k = v THEN "current" ELSE IF YmLess(k, v) THEN "past" ELSE "future"

\* C7: when price selection fails for a contract with a classifiable tenor, its
\* record has a null selected price and price date, a null MTM value, its tenor
\* classification, and the note of the failure; a contract whose index matches
\* no price row has the note "No prices found for index <index>".
C7_SelectionFailureRecorded ==
    \A n \in 1..Len(records) :
        LET rec == records[n]
            c == contracts_df.rows[n]
            ct == normalize_tenor_to_yyyymm(c.tenor)
        IN (ct # None /\ SelectionFails(c.base_index, ct, TenorClass(ct))) =>
              /\ rec.price_used.na
              /\ rec.price_used_date = None
              /\ rec.mtm_value.na
              /\ rec.tenor_type = TenorClass(ct)
              /\ FailureNoted(c.base_index, ct, rec.notes)
              /\ (\A i \in 1..Len(prices_df.rows) : prices_df.rows[i].Index # c.base_index)
                     => \E i \in 1..Len(rec.notes) :
                            rec.notes[i] = Note("No prices found for index", c.base_index)

\* C7 witness: a record of a contract with a classified tenor whose index has
\* price rows, none of them selectable: the fallback tenor has no dated price.
C7_Witness ==
    /\ pc = "done"
    /\ \E n \in 1..Len(records) :
          /\ records[n].tenor_type # "none"
          /\ records[n].price_used.na
          /\ PreparedFor(records[n].base_index) # <<>>
          /\ HasNote(records[n].notes, "No prices with dates for fallback tenor")

\* A record of a contract whose index no row of a non-empty prices table has.
C7_WitnessNoIndex ==
    /\ pc = "done"
    /\ \E n \in 1..Len(records) :
          /\ records[n].tenor_type # "none"
          /\ prices_df.rows # <<>>
          /\ HasNote(records[n].notes, "No prices found for index")

Preprocessed == pc \in {"loop", "done"}

\* The (index, tenor, date) groups present in the input prices table.
InputGroups == {GroupKey(InputRows[i]) : i \in 1..Len(InputRows)}

RowsOfGroup(k) == {i \in 1..Len(InputRows) : GroupKey(InputRows[i]) = k}

RECURSIVE SumOver(_)
SumOver(I) ==
    IF I = {} THEN 0
    ELSE LET i == CHOOSE x \in I : TRUE IN InputRows[i].Price.num + SumOver(I \ {i})

\* C8: preprocess_prices returns exactly one price point for each distinct
\* (index, tenor, date) group of the input, none missing and none twice; its
\* price is the mean of the group's prices under "mean", the price of the
\* group's last row under "last".
C8_OnePointPerGroup ==
    Preprocessed =>
        /\ \A k \in InputGroups :
              Cardinality({j \in 1..Len(prices_prepared.rows) :
                              GroupKey(prices_prepared.rows[j]) = k}) = 1
        /\ \A j \in 1..Len(prices_prepared.rows) :
              LET k == GroupKey(prices_prepared.rows[j])
                  price == prices_prepared.rows[j].Price
              IN /\ k \in InputGroups
                 /\ IF config.duplicate_price_method = "mean"
                    THEN price.num * Cardinality(RowsOfGroup(k))
                             = price.den * SumOver(RowsOfGroup(k))
                    ELSE \E i \in RowsOfGroup(k) :
                             /\ \A m \in RowsOfGroup(k) : m <= i
                             /\ price = InputRows[i].Price

\* C9: a price point without a tenor (no Tenor column, or a blank tenor) counts
\* as a point of the year-month of its date: a contract of that index and
\* canonical tenor gets a price of its own tenor, without fallback.
C9_TenorDerivedFromDate ==
    \A n \in 1..Len(records) :
        LET rec == records[n]
            ct == normalize_tenor_to_yyyymm(rec.tenor)
        IN (/\ rec.tenor_type # "none"
            /\ \E i \in 1..Len(InputRows) :
                  LET d == to_date(InputRows[i].Date) IN
                  /\ isna(InputRows[i].Tenor)
                  /\ InputRows[i].Index = rec.base_index
                  /\ d # None
                  /\ FmtYearMonth(d[1], d[2]) = ct
                  /\ rec.tenor_type = "current" => DateLE(d, valuation_date))
           => /\ ~rec.price_used.na
              /\ ~ReachedFallback(rec.notes)
              /\ ~HasNote(rec.notes, "No prices found for index")

NoteRank(msg) ==
    IF msg \in {"Missing quantity", "Moisture missing; defaulted to",
                "Unsupported unit for contract"} THEN 1
    ELSE IF msg = "Non-positive or missing discount" THEN 2
    ELSE IF msg = "Could not normalize tenor" THEN 3
    ELSE IF msg \in {"No prices found for index", "No price within past tenor month",
                     "No price on/before valuation date for current tenor",
                     "No price for exact future tenor; applying fallback"} THEN 4
    ELSE IF msg \in {"No tenor months available for index",
                     "No alternative tenor available for fallback"} \cup FallbackNotes THEN 5
    ELSE IF msg = "No prices with dates for fallback tenor" THEN 6
    ELSE IF msg = MissingNote THEN 7
    ELSE 0

IsPrefix(a, b) == Len(a) <= Len(b) /\ SubSeq(b, 1, Len(a)) = a

\* The notes the stages owe a contract row, by the row's input values.
NotesOwed(c, rec) ==
    LET unit == Upper(StrOf(c.unit))
        has_qty == c.quantity.k = "num"
        has_moisture == "moisture" \notin contracts_df.missing /\ c.moisture.k = "num"
    IN /\ unit \notin {<<"W", "M", "T">>, <<"D", "M", "T">>}
            => \E i \in 1..Len(rec.notes) :
                   rec.notes[i] = Note("Unsupported unit for contract", <<unit, c.contract_id>>)
       /\ (unit = <<"W", "M", "T">> /\ ~has_qty) => HasNote(rec.notes, "Missing quantity")
       /\ (unit = <<"W", "M", "T">> /\ has_qty /\ ~has_moisture)
            => \E i \in 1..Len(rec.notes) :
                   rec.notes[i] = Note("Moisture missing; defaulted to",
                                       Fmt2(config.default_moisture))
       /\ (c.discount.k # "num" \/ c.discount.n <= 0)
            => HasNote(rec.notes, "Non-positive or missing discount")
       /\ normalize_tenor_to_yyyymm(c.tenor) = None
            => HasNote(rec.notes, "Could not normalize tenor")
       /\ (rec.price_used.na \/ rec.dmt_qty.na \/ rec.discount.na)
            => HasNote(rec.notes, MissingNote)

\* C10: notes are append-only: a record's notes begin with the notes of the
\* prepared contract, hold every note the stages owe the row, each once, in the
\* order of the stages.
C10_NotesAppendOnly ==
    \A n \in 1..Len(records) :
        LET notes == records[n].notes IN
        /\ IsPrefix(contracts_prepared[n].notes, notes)
        /\ NotesOwed(contracts_df.rows[n], records[n])
        /\ \A i \in 1..Len(notes) : NoteRank(notes[i][1]) > 0
        /\ \A i, j \in 1..Len(notes) :
               i < j => NoteRank(notes[i][1]) < NoteRank(notes[j][1])

\* C10 witness: a record with notes of the unit stage, the discount check, the
\* price selection and the MTM computation.
C10_Witness ==
    \E n \in 1..Len(records) :
        /\ Len(records[n].notes) >= 5
        /\ HasNote(records[n].notes, "Moisture missing; defaulted to")
        /\ HasNote(records[n].notes, "Non-positive or missing discount")
        /\ UsedFallback(records[n].notes)
        /\ HasNote(records[n].notes, MissingNote)

\* The input row has a unit other than WMT / DMT (in any letter case).
UnsupportedUnit(c) == Upper(StrOf(c.unit)) \notin {<<"W", "M", "T">>, <<"D", "M", "T">>}

\* The input row's discount is null, non-numeric, or not above zero.
BadDiscount(c) == c.discount.k # "num" \/ c.discount.n <= 0

InputContracts == contracts_df.rows

\* The fatal conditions of the input.
FatalMissingColumn == contracts_df.missing \cap required_cols # {}
FatalMethod == config.duplicate_price_method \notin {"mean", "last"}
FatalUnit ==
    /\ config.invalid_unit_policy = "fail"
    /\ \E i \in 1..Len(InputContracts) : UnsupportedUnit(InputContracts[i])
FatalDiscount ==
    /\ config.raise_on_negative_discount
    /\ \E i \in 1..Len(InputContracts) : BadDiscount(InputContracts[i])

\* calculate_mtm has been entered (the state is not one of the direct call).
InPipeline == pc \in {"prepared", "loop", "done", "raised"}

\* The run ended in an error raised before the loop over the contracts, with
\* nothing returned.
AbortedBeforeLoop == pc = "raised" /\ records = <<>> /\ report = NoReport

\* C11: a missing required contract column, an unrecognized
\* duplicate_price_method, an unsupported unit under invalid_unit_policy = fail
\* and a discount <= 0 or null under raise_on_negative_discount each abort
\* calculate_mtm with no report, not even a partial one.  Under the policies
\* skip / no raise an unsupported unit or a bad discount does not abort the run
\* (an abort then comes from the loop over the prepared contracts) and the
\* note of the condition is on the affected rows and on no other row.
C11_FatalConditionsAbort ==
    /\ (FatalMissingColumn \/ FatalMethod \/ FatalUnit \/ FatalDiscount) =>
          /\ ~report.returned /\ report.rows = <<>> /\ records = <<>>
          /\ pc \notin {"loop", "done"}
    /\ (InPipeline /\ (FatalMissingColumn \/ FatalUnit \/ FatalDiscount)) => AbortedBeforeLoop
    /\ (Finished /\ FatalMethod) => AbortedBeforeLoop
    /\ (/\ InPipeline
        /\ config.invalid_unit_policy = "skip" /\ ~config.raise_on_negative_discount
        /\ contracts_df.missing \cap (required_cols \cup {"typical_fe"}) = {}) =>
          /\ Len(contracts_prepared) = Len(InputContracts)
          /\ \A i \in 1..Len(InputContracts) :
                /\ HasNote(contracts_prepared[i].notes, "Unsupported unit for contract")
                       <=> UnsupportedUnit(InputContracts[i])
                /\ HasNote(contracts_prepared[i].notes, "Non-positive or missing discount")
                       <=> BadDiscount(InputContracts[i])
          /\ (pc = "raised" /\ ~FatalMethod) =>
                /\ Len(records) < Len(contracts_prepared)
                /\ MtmRow(contracts_prepared[Len(records) + 1], prices_prepared,
                          valuation_date).raised

\* C11 witness: a run aborted by raise_on_negative_discount alone.
C11_Witness ==
    /\ AbortedBeforeLoop
    /\ FatalDiscount /\ ~FatalUnit /\ ~FatalMethod /\ ~FatalMissingColumn
    /\ "typical_fe" \notin contracts_df.missing

\* A run under the policies skip / no raise that returned a report with a row of
\* unsupported unit and bad discount next to a row without either note.
C11_WitnessSkip ==
    /\ pc = "done" /\ Len(report.rows) = 2
    /\ config.invalid_unit_policy = "skip" /\ ~config.raise_on_negative_discount
    /\ \E i, j \in 1..2 :
          /\ UnsupportedUnit(InputContracts[i]) /\ BadDiscount(InputContracts[i])
          /\ report.rows[j].notes = <<>>

\* The typical-Fe text of an input row is one compute_fe_ratio cannot parse.
FeUnparseable(c) ==
    /\ ~isna(c.typical_fe)
    /\ Strip(c.typical_fe) # <<>>
    /\ Lower(Strip(c.typical_fe)) # <<"n", "o", "a", "d", "j">>
    /\ ~FloatOf(SelectSeq(Strip(c.typical_fe), LAMBDA ch : IsDigit(ch) \/ ch \in {".", "-"})).ok

\* C12: a row whose typical-Fe value cannot be parsed, whose quantity, moisture,
\* cost or discount is non-numeric (coerced to null), or whose moisture is
\* missing, has a note in its output record that reports the problem: at the
\* least its notes are not empty, and for quantity, moisture and discount they
\* hold the note of that field.
C12_RowProblemsNoted ==
    \A n \in 1..Len(records) :
        LET c == InputContracts[n]
            notes == records[n].notes
            has_moisture == "moisture" \notin contracts_df.missing
        IN /\ FeUnparseable(c) => notes # <<>>
           /\ c.cost.k = "str" => notes # <<>>
           /\ c.quantity.k = "str" =>
                 (HasNote(notes, "Missing quantity") \/ HasNote(notes, MissingNote))
           /\ c.discount.k = "str" => HasNote(notes, "Non-positive or missing discount")
           /\ (~has_moisture \/ c.moisture.k # "num") => notes # <<>>

\* The classification the comparison of (year, month) pairs gives.
ClassOf(tenor_ym, val_ym) ==
    IF tenor_ym[1] < val_ym[1] \/ (tenor_ym[1] = val_ym[1] /\ tenor_ym[2] < val_ym[2])
    THEN "past"
    ELSE IF tenor_ym[1] = val_ym[1] /\ tenor_ym[2] = val_ym[2] THEN "current"
    ELSE "future"

ValuationYm == <<valuation_date[1], valuation_date[2]>>

SelectionNotes ==
    {"No prices found for index", "No price within past tenor month",
     "No price on/before valuation date for current tenor",
     "No price for exact future tenor; applying fallback",
     "No tenor months available for index", "No alternative tenor available for fallback",
     "No prices with dates for fallback tenor"} \cup FallbackNotes

\* C13: the tenor type of a contract is "past", "current" or "future" as the
\* (year, month) of its normalized tenor is smaller than, equal to or greater
\* than the (year, month) of the valuation date, whatever the day of the
\* valuation date.  For a tenor that cannot be normalized there is no context:
\* the record has no tenor type, no selected price and no price date, no note of
\* a price lookup, and the note "Could not normalize tenor".
C13_ClassifiedByYearMonth ==
    /\ sel.called =>
          /\ sel.tenor_ctx.contract_tenor_norm # None
          /\ sel.tenor_ctx.tenor_type
                = ClassOf(_ym_key(sel.tenor_ctx.contract_tenor_norm), ValuationYm)
    /\ \A n \in 1..Len(records) :
          LET rec == records[n]
              ct == normalize_tenor_to_yyyymm(InputContracts[n].tenor)
          IN IF ct = None
             THEN /\ rec.tenor_type = "none"
                  /\ rec.price_used.na /\ rec.price_used_date = None
                  /\ HasNote(rec.notes, "Could not normalize tenor")
                  /\ \A i \in 1..Len(rec.notes) : rec.notes[i][1] \notin SelectionNotes
             ELSE /\ rec.tenor_type = ClassOf(_ym_key(ct), ValuationYm)
                  /\ ~HasNote(rec.notes, "Could not normalize tenor")

\* C13 witness: the report of a run whose contract has a tenor that cannot be
\* normalized, over a prices table with a price of the contract's index.
C13_Witness ==
    /\ pc = "done"
    /\ \E n \in 1..Len(report.rows) :
          /\ report.rows[n].tenor_type = "none"
          /\ HasNote(report.rows[n].notes, "Could not normalize tenor")
          /\ PreparedFor(report.rows[n].base_index) # <<>>

\* A record of a contract whose tenor is a full date of the valuation month.
C13_WitnessCurrent ==
    \E n \in 1..Len(records) :
        /\ records[n].tenor_type = "current"
        /\ InputContracts[n].tenor = D_2025_06_20

\* A canonical year-month text: four digits, "-", two digits of a month 01..12.
Canonical(t) ==
    /\ Len(t) = 7 /\ t[5] = "-"
    /\ AllDigits(SubSeq(t, 1, 4)) /\ AllDigits(SubSeq(t, 6, 7))
    /\ IntOf(SubSeq(t, 6, 7)) \in 1..12

\* C14: normalize_tenor_to_yyyymm returns null or a canonical year-month text,
\* and returns a canonical text unchanged: so are the normalized tenor of the
\* contract in a tenor context and the normalized tenor of a selected price row.
C14_NormalizedIsCanonical ==
    /\ \A i \in 1..Len(InputContracts) :
          Canonical(InputContracts[i].tenor)
              => normalize_tenor_to_yyyymm(InputContracts[i].tenor) = InputContracts[i].tenor
    /\ sel.called =>
          /\ Canonical(sel.tenor_ctx.contract_tenor_norm)
          /\ sel.res.found => Canonical(sel.res.row.tenor_norm)

\* C15: the Fe ratio of every prepared contract is >= 0; it is 1.0 (62 62nds)
\* for a null, blank or "NoAdj" typical-Fe value and for a text that does not
\* parse after stripping, and otherwise the stripped number divided by 62.
C15_FeRatioNonNegative ==
    \A i \in 1..Len(contracts_prepared) :
        LET c == InputContracts[i]
            fe == contracts_prepared[i].fe_ratio
        IN /\ fe >= 0
           /\ (\/ isna(c.typical_fe) \/ Strip(c.typical_fe) = <<>>
               \/ Lower(Strip(c.typical_fe)) = <<"n", "o", "a", "d", "j">>
               \/ FeUnparseable(c)) => fe = REFERENCE_FE

\* calculate_mtm on the contracts table that holds the row c alone, with the
\* prices table, valuation date and configuration of the run: [produced, record].
SoloRun(c) ==
    LET Loop(prepared, prices) ==
            IF prepared.raised \/ prices.raised
            THEN [produced |-> FALSE, record |-> <<>>]
            ELSE LET r == MtmRow(prepared.rows[1], prices.table, valuation_date)
                 IN IF r.raised THEN [produced |-> FALSE, record |-> <<>>]
                    ELSE [produced |-> TRUE, record |-> <<r.record>>]
    IN Loop(prepare_contracts([missing |-> contracts_df.missing, rows |-> <<c>>], config),
            preprocess_prices(prices_df, config))

\* C16 as stated: the record of a contract row is the one of the row processed
\* alone, and it is produced by the run exactly if it is produced for the row
\* alone, whatever other rows the table has.
C16_RowsIndependent ==
    (pc \in {"done", "raised"}) =>
        \A i \in 1..Len(InputContracts) :
            LET solo == SoloRun(InputContracts[i]) IN
            solo.produced <=> /\ report.returned
                              /\ i <= Len(report.rows)
                              /\ <<report.rows[i]>> = solo.record

\* C16 amended: every record the run produces is the record of its contract row
\* processed alone.
C16_RecordsIndependent ==
    /\ \A n \in 1..Len(records) :
          LET solo == SoloRun(InputContracts[n]) IN
          solo.produced /\ <<records[n]>> = solo.record
    /\ report.returned => report.rows = records /\ Len(records) = Len(InputContracts)

\* C16 witness: a report of two records, one of a row with notes of the unit
\* and discount checks, the other of a row without notes.
C16_Witness ==
    /\ pc = "done" /\ Len(report.rows) = 2
    /\ \E i, j \in 1..2 :
          /\ HasNote(report.rows[i].notes, "Unsupported unit for contract")
          /\ HasNote(report.rows[i].notes, "Non-positive or missing discount")
          /\ report.rows[j].notes = <<>> /\ ~report.rows[j].mtm_value.na

\* C17: unit dispatch in prepare_contracts, the unit read in any letter case.
\* For DMT the DMT quantity is the quantity unchanged.  For WMT it is
\* quantity * (1 - moisture), with the configured default moisture and a note
\* naming the default when the moisture is null, and it is null with the note
\* "Missing quantity" when the quantity is null.  For any other unit, under the
\* skip policy, the DMT quantity is null and a note names the unit; the row is
\* kept, its record has a null MTM value, and a returned report holds it.
C17_UnitDispatch ==
    /\ \A i \in 1..Len(contracts_prepared) :
          LET c == InputContracts[i]
              p == contracts_prepared[i]
              unit == Upper(StrOf(c.unit))
              has_qty == c.quantity.k = "num"
              has_moisture == "moisture" \notin contracts_df.missing /\ c.moisture.k = "num"
              moisture_note == Note("Moisture missing; defaulted to",
                                    Fmt2(config.default_moisture))
          IN /\ unit = <<"D", "M", "T">> =>
                   /\ p.dmt_qty = IF has_qty THEN Num(100 * c.quantity.n) ELSE NumNaN
                   /\ \A k \in 1..Len(p.notes) : NoteRank(p.notes[k][1]) # 1
             /\ (unit = <<"W", "M", "T">> /\ has_qty /\ has_moisture) =>
                   /\ p.dmt_qty = Num(c.quantity.n * (100 - c.moisture.n))
                   /\ \A k \in 1..Len(p.notes) : NoteRank(p.notes[k][1]) # 1
             /\ (unit = <<"W", "M", "T">> /\ has_qty /\ ~has_moisture) =>
                   /\ p.dmt_qty = Num(c.quantity.n * (100 - config.default_moisture))
                   /\ p.notes # <<>> /\ p.notes[1] = moisture_note
             /\ (unit = <<"W", "M", "T">> /\ ~has_qty) =>
                   /\ p.dmt_qty = NumNaN
                   /\ p.notes # <<>> /\ p.notes[1] = Note("Missing quantity", <<>>)
             /\ UnsupportedUnit(c) =>
                   /\ config.invalid_unit_policy = "skip"
                   /\ p.dmt_qty = NumNaN
                   /\ p.notes # <<>>
                   /\ p.notes[1] = Note("Unsupported unit for contract", <<unit, c.contract_id>>)
    /\ (InPipeline /\ config.invalid_unit_policy = "skip" /\ ~AbortedBeforeLoop)
          => Len(contracts_prepared) = Len(InputContracts)
    /\ \A n \in 1..Len(records) :
          UnsupportedUnit(InputContracts[n]) =>
              /\ records[n].dmt_qty.na /\ records[n].mtm_value.na
              /\ HasNote(records[n].notes, "Unsupported unit for contract")
    /\ report.returned =>
          /\ Len(report.rows) = Len(InputContracts)
          /\ \A n \in 1..Len(report.rows) :
                report.rows[n].contract_id = InputContracts[n].contract_id

\* C17 witness: a returned report with the record of a row of unsupported unit.
C17_Witness ==
    /\ pc = "done"
    /\ \E n \in 1..Len(report.rows) :
          /\ UnsupportedUnit(InputContracts[n])
          /\ report.rows[n].mtm_value.na
          /\ HasNote(report.rows[n].notes, "Unsupported unit for contract")

\* A WMT row without moisture converted with a default moisture of 0.05.
C17_WitnessDefaultMoisture ==
    \E i \in 1..Len(contracts_prepared) :
        /\ config.default_moisture = 5
        /\ InputContracts[i].moisture.k # "num"
        /\ contracts_prepared[i].dmt_qty = Num(950)

\* A same-tenor price qualifies for a contract of index idx, canonical tenor ct
\* and classification ttype among the rows of a prepared prices table.
SameTenorQualifies(rows, idx, ct, ttype) ==
    \E i \in 1..Len(rows) :
        /\ rows[i].Index = idx /\ rows[i].tenor_norm = ct /\ rows[i].price_date # None
        /\ ttype = "current" => DateLE(rows[i].price_date, valuation_date)

\* C18: a price row returned by select_price_for_contract has the contract's
\* index; its normalized tenor is the contract's canonical tenor exactly when
\* the returned notes hold no fallback note; and a fallback note is returned
\* only when no same-tenor price qualified.  The price of a record is that of a
\* row of the contract's index: of a row of another tenor, named in a fallback
\* note, if the notes hold one, and of a row of the contract's tenor otherwise.
C18_NoSilentFallback ==
    /\ (sel.called /\ sel.res.found) =>
          LET row == sel.res.row
              ct == sel.tenor_ctx.contract_tenor_norm
              qualifies == SameTenorQualifies(_prepare_prices(prices_df), sel.base_index, ct,
                                              sel.tenor_ctx.tenor_type)
          IN /\ row.Index = sel.base_index
             /\ row.tenor_norm = ct <=> ~UsedFallback(sel.res.notes)
             /\ UsedFallback(sel.res.notes) <=> ~qualifies
    /\ \A n \in 1..Len(records) :
          Priced(records[n]) =>
              LET rec == records[n]
                  ct == normalize_tenor_to_yyyymm(InputContracts[n].tenor)
                  rows == _prepare_prices(prices_prepared)
                  qualifies == SameTenorQualifies(rows, rec.base_index, ct, rec.tenor_type)
                  \* the rows of the preprocessed table the record's price can be of
                  from == {i \in 1..Len(rows) :
                              /\ rows[i].Index = rec.base_index
                              /\ rows[i].Date = rec.price_used_date
                              /\ rows[i].Price.num = rec.price_used.num
                              /\ rows[i].Price.den = rec.price_used.den}
              IN /\ from # {}
                 /\ UsedFallback(rec.notes) <=> ~qualifies
                 /\ IF UsedFallback(rec.notes)
                    THEN \E i \in from :
                            /\ rows[i].tenor_norm # ct
                            /\ \E k \in 1..Len(rec.notes) :
                                  /\ rec.notes[k][1] \in FallbackNotes
                                  /\ rec.notes[k][2] = rows[i].tenor_norm
                    ELSE \E i \in from : rows[i].tenor_norm = ct

\* C18 witness: a direct call that returned the price of another tenor.
C18_Witness ==
    /\ sel.called /\ sel.res.found
    /\ UsedFallback(sel.res.notes)
    /\ sel.res.row.tenor_norm # sel.tenor_ctx.contract_tenor_norm
    /\ sel.res.row.Index = sel.base_index

\* A record priced from a row of the contract's own tenor, over a prices table
\* that also has rows of another tenor and of another index.
C18_WitnessSameTenor ==
    \E n \in 1..Len(records) :
        /\ Priced(records[n]) /\ records[n].notes = <<>>
        /\ \E i \in 1..Len(prices_df.rows) : prices_df.rows[i].Index # records[n].base_index

====
